---- MODULE Spec2Model ----
(***************************************************************************)
(* State-machine model of class MT4Manager (mt4_api/MT4Manager.h): the     *)
(* session flags, the last-error slot, and every public operation, run     *)
(* against a stub of the native manager interface (CManagerInterface).     *)
(* The stub keeps a connection flag, a server clock and a trade book; its  *)
(* return codes and returned buffers are chosen nondeterministically.      *)
(***************************************************************************)
EXTENDS Integers, Sequences, FiniteSets, TLC

(* ------------------------------ bounds --------------------------------- *)
\* largest number of trades the stub's trade book accepts
MaxTrades == 2
\* number of seconds the stub's server clock runs through, from 0
MaxTime == 2

(* --------------------------- program constants ------------------------- *)
RET_OK == 0
RET_ERROR == 2
RET_NO_CONNECT == 6
\* non-OK return codes the stub may answer with
ErrCodes == {RET_ERROR, RET_NO_CONNECT}
Servers == {"demo.broker:443", "live.broker:443"}
Logins == {12345}
Symbols == {"EURUSD"}
\* tickets a caller may name: those the book can hold and one it cannot
Tickets == 1..(MaxTrades + 1)
NULL == "NULL"
HANDLE == "HANDLE"
\* order kinds (TradeRecord::cmd); UNKNOWN_CMD is a value outside the enum
OP_BUY == 0
OP_BALANCE == 6
OP_CREDIT == 7
UNKNOWN_CMD == 8
Cmds == {OP_BUY, OP_BALANCE, OP_CREDIT, UNKNOWN_CMD}
\* the range of the descriptor's int volume field
INT_MAX == 2147483647
INT_MIN == (-INT_MAX) - 1
\* a volume in lots is lots + milli/1000, both parts of the same sign:
\* 0.10, 0.015, -0.015 and 30 000 000 lots
Volumes == {[lots |-> 0, milli |-> 100], [lots |-> 0, milli |-> 15],
            [lots |-> 0, milli |-> -15], [lots |-> 30000000, milli |-> 0]}
\* the (order kind, volume) pairs openTrade is called with: every volume
\* for a market buy, every order kind for 0.10 lots
OpenArgs == {<<OP_BUY, v>> : v \in Volumes} \cup
            {<<c, [lots |-> 0, milli |-> 100]>> : c \in Cmds}

ERR_NOT_INITIALIZED == "Manager interface not initialized"
ERR_NOT_CONNECTED == "Not connected to server"
ERR_NOT_LOGGED_IN == "Not connected or not logged in"

VARIABLES
    alive,          \* the object has been constructed and not yet destroyed
    m_manager,      \* CManagerInterface* : NULL or the handle
    m_connected,
    m_logged_in,
    m_server,
    m_login,
    m_last_error,
    sdkConnected,   \* what CManagerInterface::IsConnected would answer
    sdkTime,        \* the server clock (seconds)
    sdkTrades,      \* the server's book of open trades, in creation order
    sdkTickets,     \* number of tickets the server has issued
    releases,       \* number of Release calls made on the handle so far
    op,             \* the last operation: its name, result and SDK calls
    pre             \* the adapter's fields as the last operation found them

vars == <<alive, m_manager, m_connected, m_logged_in, m_server, m_login,
          m_last_error, sdkConnected, sdkTime, sdkTrades, sdkTickets, releases,
          op, pre>>

adapterVars == <<m_manager, m_connected, m_logged_in, m_server, m_login,
                 m_last_error>>
sdkVars == <<sdkConnected, sdkTime, sdkTrades, sdkTickets>>

(* ------------------------------ helpers -------------------------------- *)
\* the record kept of an operation
OpRec(name, retB, retI, retS, calls, f, created) ==
    [name |-> name, retB |-> retB, retI |-> retI, retS |-> retS,
     calls |-> calls, ptr |-> f.ptr, total |-> f.total, buf |-> f.buf,
     frees |-> f.frees, created |-> created, arg |-> <<>>]

\* the same record with the arguments of the operation's SDK call: the
\* server of a Connect; the descriptor of an open (with the SDK's answer)
\* and the volume in lots it was made from
WithArg(rec, arg) == [rec EXCEPT !.arg = arg]

\* no buffer was requested from the SDK
NoFetch == [ptr |-> FALSE, total |-> 0, buf |-> <<>>, frees |-> 0]

Snapshot ==
    [manager |-> m_manager, connected |-> m_connected,
     logged_in |-> m_logged_in, server |-> m_server, login |-> m_login,
     last_error |-> m_last_error, sdkConnected |-> sdkConnected]

isValid == m_manager # NULL

getLastError == m_last_error

\* CManagerInterface::ErrorDescription: the SDK's text for a return code
ErrorDescription(code) ==
    IF code = RET_OK THEN "OK"
    ELSE IF code = RET_ERROR THEN "Common error"
    ELSE IF code = RET_NO_CONNECT THEN "No connection"
    ELSE "Unknown error"

\* a setLastError that describes every failure as RET_ERROR
setLastErrorFixed(code) ==
    IF m_manager # NULL THEN ErrorDescription(RET_ERROR)
    ELSE ERR_NOT_INITIALIZED

\* setLastError(code): the value it leaves in m_last_error
setLastError(code) ==
    IF m_manager # NULL THEN ErrorDescription(code)
    ELSE ERR_NOT_INITIALIZED

\* return codes the SDK may give to a request: without a link to the server
\* every request is refused, with one it is served or fails
SdkCodes == IF sdkConnected THEN {RET_OK, RET_ERROR} ELSE {RET_NO_CONNECT}

\* return codes of a request the server cannot serve
Refusals == IF sdkConnected THEN {RET_ERROR} ELSE {RET_NO_CONNECT}


(* ------------------------------ SDK stub ------------------------------- *)
\* the directory of the stub server
SdkUsers == <<[login |-> 12345, group |-> "demo"], [login |-> 777, group |-> "real"]>>
SdkSymbols == <<[symbol |-> "EURUSD", digits |-> 5]>>
SdkOnline == <<[login |-> 12345]>>

\* a sequence back to front
Reverse(q) == [i \in 1..Len(q) |-> q[Len(q) + 1 - i]]

\* what a list call of the SDK may hand back when its data is recs:
\* a null pointer, the records, or a non-null buffer with no count
ListReplies(recs) ==
    {[ptr |-> FALSE, total |-> 0, buf |-> <<>>]} \cup
    (IF sdkConnected
     THEN {[ptr |-> TRUE, total |-> Len(recs), buf |-> recs]} \cup
          {[ptr |-> TRUE, total |-> t, buf |-> <<>>] : t \in {-1, 0}}
     ELSE {})

\* the trades of a book of open trades that a filtered request selects,
\* in creation order
TradesByLogin(book, lg) == SelectSeq(book, LAMBDA t : t.login = lg)

TradesBySymbol(book, symbol) == SelectSeq(book, LAMBDA t : t.symbol = symbol)

\* a trades request answers oldest first or newest first
TradeReplies(q) == ListReplies(q) \cup ListReplies(Reverse(q))

\* whether the server can act on a ticket: it is in the book of open trades
Tradable(ticket) == \E i \in 1..Len(sdkTrades) : sdkTrades[i].order = ticket

\* the book record of a ticket
TradeOf(ticket) ==
    sdkTrades[CHOOSE i \in 1..Len(sdkTrades) : sdkTrades[i].order = ticket]

\* a copy loop that stops one record short
CopiedShort(reply) ==
    IF reply.ptr /\ reply.total > 0
    THEN [i \in 1..(reply.total - 1) |-> reply.buf[i]]
    ELSE <<>>

\* `if (p && total > 0) { for (...) push_back(p[i]); MemFree(p); }`
Copied(reply) ==
    IF reply.ptr /\ reply.total > 0
    THEN [i \in 1..reply.total |-> reply.buf[i]]
    ELSE <<>>

Fetched(reply) ==
    [ptr |-> reply.ptr, total |-> reply.total, buf |-> reply.buf,
     frees |-> IF reply.ptr /\ reply.total > 0 THEN 1 ELSE 0]

FreeCalls(f) == IF f.frees > 0 THEN <<"MemFree">> ELSE <<>>

\* the body shared by the five list queries
ListQuery(name, sdkCall, replies) ==
    /\ alive
    /\ pre' = Snapshot
    /\ IF ~isValid \/ ~m_logged_in
       THEN op' = OpRec(name, FALSE, 0, <<>>, <<>>, NoFetch, 0)
       ELSE \E reply \in replies :
              op' = OpRec(name, FALSE, 0, Copied(reply),
                          <<sdkCall>> \o FreeCalls(Fetched(reply)),
                          Fetched(reply), 0)
    /\ UNCHANGED <<alive, adapterVars, sdkVars, releases>>

\* the body shared by the single-record getters
RecordGet(name, sdkCall, exists, rec) ==
    /\ alive
    /\ pre' = Snapshot
    /\ IF ~isValid \/ ~m_logged_in
       THEN /\ op' = OpRec(name, FALSE, 0, <<>>, <<>>, NoFetch, 0)
            /\ UNCHANGED m_last_error
       ELSE \E res \in (IF exists THEN SdkCodes ELSE Refusals) :
              IF res # RET_OK
              THEN /\ m_last_error' = setLastError(res)
                   /\ op' = OpRec(name, FALSE, 0, <<>>,
                                  <<sdkCall, "ErrorDescription">>, NoFetch, 0)
              ELSE /\ op' = OpRec(name, TRUE, 0, <<rec>>, <<sdkCall>>,
                                  NoFetch, 0)
                   /\ UNCHANGED m_last_error
    /\ UNCHANGED <<alive, m_manager, m_connected, m_logged_in, m_server,
                   m_login, sdkVars, releases>>

(* ------------------------------- Init ---------------------------------- *)
\* MT4Manager(): the handle is created iff the factory is valid
Init ==
    /\ alive = TRUE
    /\ m_manager \in {NULL, HANDLE}
    /\ m_connected = FALSE
    /\ m_logged_in = FALSE
    /\ m_server = ""
    /\ m_login = 0
    /\ m_last_error = ""
    /\ sdkConnected = FALSE
    /\ sdkTime = 0
    /\ sdkTrades = <<>>
    /\ sdkTickets = 0
    /\ releases = 0
    /\ op = OpRec("construct", m_manager # NULL, 0, <<>>, <<>>, NoFetch, 0)
    /\ pre = [manager |-> NULL, connected |-> FALSE, logged_in |-> FALSE,
              server |-> "", login |-> 0, last_error |-> "",
              sdkConnected |-> FALSE]

(* --------------------------- session operations ------------------------ *)
\* a connect that starts a fresh session: it drops the logged-in flag
connectResetsLogin(server) ==
    /\ alive
    /\ pre' = Snapshot
    /\ IF ~isValid
       THEN /\ m_last_error' = ERR_NOT_INITIALIZED
            /\ op' = OpRec("connect", FALSE, 0, <<>>, <<>>, NoFetch, 0)
            /\ UNCHANGED <<m_connected, m_server, sdkConnected, m_logged_in>>
       ELSE \E res \in {RET_OK} \cup ErrCodes :
              IF res # RET_OK
              THEN /\ m_last_error' = setLastError(res)
                   /\ op' = OpRec("connect", FALSE, 0, <<>>,
                                  <<"Connect", "ErrorDescription">>, NoFetch, 0)
                   \* a refused Connect may or may not drop a live link
                   /\ sdkConnected' \in {sdkConnected, FALSE}
                   /\ UNCHANGED <<m_connected, m_server, m_logged_in>>
              ELSE /\ m_connected' = TRUE
                   /\ m_logged_in' = FALSE
                   /\ m_server' = server
                   /\ sdkConnected' = TRUE
                   /\ op' = WithArg(OpRec("connect", TRUE, 0, <<>>,
                                          <<"Connect">>, NoFetch, 0),
                                    <<server>>)
                   /\ UNCHANGED m_last_error
    /\ UNCHANGED <<alive, m_manager, m_login, sdkTime, sdkTrades,
                   sdkTickets, releases>>

connect(server) ==
    /\ alive
    /\ pre' = Snapshot
    /\ IF ~isValid
       THEN /\ m_last_error' = ERR_NOT_INITIALIZED
            /\ op' = OpRec("connect", FALSE, 0, <<>>, <<>>, NoFetch, 0)
            /\ UNCHANGED <<m_connected, m_server, sdkConnected>>
       ELSE \E res \in {RET_OK} \cup ErrCodes :
              IF res # RET_OK
              THEN /\ m_last_error' = setLastError(res)
                   /\ op' = OpRec("connect", FALSE, 0, <<>>,
                                  <<"Connect", "ErrorDescription">>, NoFetch, 0)
                   \* a refused Connect may or may not drop a live link
                   /\ sdkConnected' \in {sdkConnected, FALSE}
                   /\ UNCHANGED <<m_connected, m_server>>
              ELSE /\ m_connected' = TRUE
                   /\ m_server' = server
                   /\ sdkConnected' = TRUE
                   /\ op' = WithArg(OpRec("connect", TRUE, 0, <<>>,
                                          <<"Connect">>, NoFetch, 0),
                                    <<server>>)
                   /\ UNCHANGED m_last_error
    /\ UNCHANGED <<alive, m_manager, m_logged_in, m_login, sdkTime, sdkTrades,
                   sdkTickets, releases>>

\* a login that checks the handle but not the connected flag
loginUnguarded(lg) ==
    /\ alive
    /\ pre' = Snapshot
    /\ IF ~isValid
       THEN /\ m_last_error' = ERR_NOT_CONNECTED
            /\ op' = OpRec("login", FALSE, 0, <<>>, <<>>, NoFetch, 0)
            /\ UNCHANGED <<m_logged_in, m_login>>
       ELSE \E res \in SdkCodes :
              IF res # RET_OK
              THEN /\ m_last_error' = setLastError(res)
                   /\ op' = OpRec("login", FALSE, 0, <<>>,
                                  <<"Login", "ErrorDescription">>, NoFetch, 0)
                   /\ UNCHANGED <<m_logged_in, m_login>>
              ELSE /\ m_logged_in' = TRUE
                   /\ m_login' = lg
                   /\ op' = OpRec("login", TRUE, 0, <<>>, <<"Login">>,
                                  NoFetch, 0)
                   /\ UNCHANGED m_last_error
    /\ UNCHANGED <<alive, m_manager, m_connected, m_server, sdkVars, releases>>

\* a login that empties the last-error slot when it succeeds
loginClearsError(lg) ==
    /\ alive
    /\ pre' = Snapshot
    /\ IF ~isValid \/ ~m_connected
       THEN /\ m_last_error' = ERR_NOT_CONNECTED
            /\ op' = OpRec("login", FALSE, 0, <<>>, <<>>, NoFetch, 0)
            /\ UNCHANGED <<m_logged_in, m_login>>
       ELSE \E res \in SdkCodes :
              IF res # RET_OK
              THEN /\ m_last_error' = setLastError(res)
                   /\ op' = OpRec("login", FALSE, 0, <<>>,
                                  <<"Login", "ErrorDescription">>, NoFetch, 0)
                   /\ UNCHANGED <<m_logged_in, m_login>>
              ELSE /\ m_logged_in' = TRUE
                   /\ m_login' = lg
                   /\ op' = OpRec("login", TRUE, 0, <<>>, <<"Login">>,
                                  NoFetch, 0)
                   /\ m_last_error' = ""
    /\ UNCHANGED <<alive, m_manager, m_connected, m_server, sdkVars, releases>>

login(lg) ==
    /\ alive
    /\ pre' = Snapshot
    /\ IF ~isValid \/ ~m_connected
       THEN /\ m_last_error' = ERR_NOT_CONNECTED
            /\ op' = OpRec("login", FALSE, 0, <<>>, <<>>, NoFetch, 0)
            /\ UNCHANGED <<m_logged_in, m_login>>
       ELSE \E res \in SdkCodes :
              IF res # RET_OK
              THEN /\ m_last_error' = setLastError(res)
                   /\ op' = OpRec("login", FALSE, 0, <<>>,
                                  <<"Login", "ErrorDescription">>, NoFetch, 0)
                   /\ UNCHANGED <<m_logged_in, m_login>>
              ELSE /\ m_logged_in' = TRUE
                   /\ m_login' = lg
                   /\ op' = OpRec("login", TRUE, 0, <<>>, <<"Login">>,
                                  NoFetch, 0)
                   /\ UNCHANGED m_last_error
    /\ UNCHANGED <<alive, m_manager, m_connected, m_server, sdkVars, releases>>

\* a disconnect that leaves the logged-in flag set
disconnectKeepsLogin ==
    /\ alive
    /\ pre' = Snapshot
    /\ IF isValid /\ m_connected
       THEN /\ m_connected' = FALSE
            /\ sdkConnected' = FALSE
            /\ op' = OpRec("disconnect", TRUE, 0, <<>>, <<"Disconnect">>,
                           NoFetch, 0)
       ELSE /\ op' = OpRec("disconnect", TRUE, 0, <<>>, <<>>, NoFetch, 0)
            /\ UNCHANGED <<m_connected, sdkConnected>>
    /\ UNCHANGED <<alive, m_manager, m_logged_in, m_server, m_login,
                   m_last_error, sdkTime, sdkTrades, sdkTickets, releases>>

disconnect ==
    /\ alive
    /\ pre' = Snapshot
    /\ IF isValid /\ m_connected
       THEN /\ m_connected' = FALSE
            /\ m_logged_in' = FALSE
            /\ sdkConnected' = FALSE
            /\ op' = OpRec("disconnect", TRUE, 0, <<>>, <<"Disconnect">>,
                           NoFetch, 0)
       ELSE /\ op' = OpRec("disconnect", TRUE, 0, <<>>, <<>>, NoFetch, 0)
            /\ UNCHANGED <<m_connected, m_logged_in, sdkConnected>>
    /\ UNCHANGED <<alive, m_manager, m_server, m_login, m_last_error, sdkTime,
                   sdkTrades, sdkTickets, releases>>

\* an isConnected that answers from the flag without polling the SDK
isConnectedFlagOnly ==
    /\ alive
    /\ pre' = Snapshot
    /\ op' = OpRec("isConnected", m_connected, 0, <<>>, <<>>, NoFetch, 0)
    /\ UNCHANGED <<alive, adapterVars, sdkVars, releases>>

isConnected ==
    /\ alive
    /\ pre' = Snapshot
    /\ op' = OpRec("isConnected",
                   m_connected /\ (IF m_manager # NULL THEN sdkConnected
                                   ELSE FALSE),
                   0, <<>>,
                   IF m_connected /\ m_manager # NULL THEN <<"IsConnected">>
                   ELSE <<>>,
                   NoFetch, 0)
    /\ UNCHANGED <<alive, adapterVars, sdkVars, releases>>

isLoggedIn ==
    /\ alive
    /\ pre' = Snapshot
    /\ op' = OpRec("isLoggedIn", m_logged_in, 0, <<>>, <<>>, NoFetch, 0)
    /\ UNCHANGED <<alive, adapterVars, sdkVars, releases>>

(* ------------------------------- queries ------------------------------- *)
getServerTime ==
    /\ alive
    /\ pre' = Snapshot
    /\ IF ~isValid \/ ~m_logged_in
       THEN op' = OpRec("getServerTime", FALSE, 0, <<>>, <<>>, NoFetch, 0)
       ELSE op' = OpRec("getServerTime", FALSE, sdkTime, <<>>,
                        <<"ServerTime">>, NoFetch, 0)
    /\ UNCHANGED <<alive, adapterVars, sdkVars, releases>>

getAccounts == ListQuery("getAccounts", "UsersRequest", ListReplies(SdkUsers))

getAccount(lg) ==
    RecordGet("getAccount", "UserRecordGet",
              \E i \in 1..Len(SdkUsers) : SdkUsers[i].login = lg,
              IF \E i \in 1..Len(SdkUsers) : SdkUsers[i].login = lg
              THEN SdkUsers[CHOOSE i \in 1..Len(SdkUsers) :
                                SdkUsers[i].login = lg]
              ELSE [login |-> lg, group |-> ""])

getSymbols == ListQuery("getSymbols", "SymbolsGetAll", ListReplies(SdkSymbols))

getSymbol(symbol_name) ==
    /\ alive
    /\ pre' = Snapshot
    /\ IF ~isValid \/ ~m_logged_in
       THEN /\ op' = OpRec("getSymbol", FALSE, 0, <<>>, <<>>, NoFetch, 0)
            /\ UNCHANGED m_last_error
       ELSE \E res \in SdkCodes :
              IF res # RET_OK
              THEN /\ m_last_error' = setLastError(res)
                   /\ op' = OpRec("getSymbol", FALSE, 0, <<>>,
                                  <<"SymbolGet", "ErrorDescription">>,
                                  NoFetch, 0)
              ELSE \E res2 \in SdkCodes :
                     /\ op' = OpRec("getSymbol", TRUE, 0,
                                    <<[symbol |-> symbol_name,
                                       has_info |-> (res2 = RET_OK)]>>,
                                    <<"SymbolGet", "SymbolInfoGet">>,
                                    NoFetch, 0)
                     /\ UNCHANGED m_last_error
    /\ UNCHANGED <<alive, m_manager, m_connected, m_logged_in, m_server,
                   m_login, sdkVars, releases>>

getTrades ==
    ListQuery("getTrades", "TradesRequest",
              TradeReplies(sdkTrades))

getTradesByLogin(lg) ==
    ListQuery("getTradesByLogin", "TradesGetByLogin",
              TradeReplies(TradesByLogin(sdkTrades, lg)))

getTradesBySymbol(symbol) ==
    ListQuery("getTradesBySymbol", "TradesGetBySymbol",
              TradeReplies(TradesBySymbol(sdkTrades, symbol)))

getTradeByTicket(ticket) ==
    RecordGet("getTradeByTicket", "TradeRecordGet",
              Tradable(ticket),
              IF Tradable(ticket) THEN TradeOf(ticket)
              ELSE [order |-> ticket, login |-> 0, symbol |-> "",
                    open_time |-> 0, close_time |-> 0])

getMarginLevel(lg) ==
    /\ alive
    /\ pre' = Snapshot
    /\ IF ~isValid \/ ~m_logged_in
       THEN /\ m_last_error' = ERR_NOT_LOGGED_IN
            /\ op' = OpRec("getMarginLevel", FALSE, 0, <<>>, <<>>, NoFetch, 0)
       ELSE \E res \in SdkCodes :
              IF res # RET_OK
              THEN /\ m_last_error' = setLastError(res)
                   /\ op' = OpRec("getMarginLevel", FALSE, 0, <<>>,
                                  <<"MarginLevelRequest", "ErrorDescription">>,
                                  NoFetch, 0)
              ELSE /\ op' = OpRec("getMarginLevel", TRUE, 0, <<>>,
                                  <<"MarginLevelRequest">>, NoFetch, 0)
                   /\ UNCHANGED m_last_error
    /\ UNCHANGED <<alive, m_manager, m_connected, m_logged_in, m_server,
                   m_login, sdkVars, releases>>

getOnlineUsersCount ==
    /\ alive
    /\ pre' = Snapshot
    /\ IF ~isValid \/ ~m_logged_in
       THEN op' = OpRec("getOnlineUsersCount", FALSE, 0, <<>>, <<>>,
                        NoFetch, 0)
       ELSE \E reply \in ListReplies(SdkOnline) :
              LET f == [Fetched(reply) EXCEPT
                            !.frees = IF reply.ptr THEN 1 ELSE 0]
              IN op' = OpRec("getOnlineUsersCount", FALSE, reply.total, <<>>,
                             <<"OnlineRequest">> \o FreeCalls(f), f, 0)
    /\ UNCHANGED <<alive, adapterVars, sdkVars, releases>>

isUserOnline(lg) ==
    /\ alive
    /\ pre' = Snapshot
    /\ IF ~isValid \/ ~m_logged_in
       THEN op' = OpRec("isUserOnline", FALSE, 0, <<>>, <<>>, NoFetch, 0)
       ELSE \E reply \in ListReplies(SdkOnline) :
              op' = OpRec("isUserOnline",
                          /\ reply.ptr
                          /\ reply.total > 0
                          /\ \E i \in 1..reply.total : reply.buf[i].login = lg,
                          0, <<>>,
                          <<"OnlineRequest">> \o FreeCalls(Fetched(reply)),
                          Fetched(reply), 0)
    /\ UNCHANGED <<alive, adapterVars, sdkVars, releases>>

(* --------------------------- trade operations -------------------------- *)
\* a quotient rounded towards minus infinity
FloorDiv(a, b) == a \div b

\* a quotient rounded towards zero, as the cast (int) rounds
TruncDiv(a, b) == IF a >= 0 THEN a \div b ELSE -((-a) \div b)

\* volume * 100 lies in the range of int (decided without leaving it)
FitsInt(volume) ==
    /\ volume.lots <= INT_MAX \div 100
    /\ volume.lots >= -(INT_MAX \div 100)
    /\ volume.lots * 100 + TruncDiv(volume.milli, 10) <= INT_MAX
    /\ volume.lots * 100 + TruncDiv(volume.milli, 10) >= -INT_MAX

\* `(int)(volume * 100)`: the values the cast may yield. The product is
\* taken exactly; out of the range of int the cast is undefined and the
\* usual builds yield INT_MIN or a saturated INT_MAX.
LotsToUnits(volume) ==
    IF FitsInt(volume)
    THEN {volume.lots * 100 + TruncDiv(volume.milli, 10)}
    ELSE {INT_MIN, INT_MAX}

\* the TradeTransInfo that openTrade fills in, and the SDK's answer to it
OpenDescriptor(lg, symbol, cmd, units, res) ==
    [type |-> "TT_BR_ORDER_OPEN", cmd |-> cmd, orderby |-> lg,
     symbol |-> symbol, volume |-> units, res |-> res]

\* the loop `for (i = 0; i < total; i++) if (trades[i].open_time > newest_time)`
RECURSIVE NewestScan(_, _, _, _, _)
NewestScan(trades, total, i, newest_time, order_ticket) ==
    IF i > total THEN order_ticket
    ELSE IF trades[i].open_time > newest_time
         THEN NewestScan(trades, total, i + 1, trades[i].open_time,
                         trades[i].order)
         ELSE NewestScan(trades, total, i + 1, newest_time, order_ticket)

\* an identification pass that takes the first record fetched, whatever its
\* open time
IdentificationPassFirst(reply) ==
    IF reply.ptr /\ reply.total > 0
    THEN reply.buf[1].order
    ELSE 0

\* "Find the new order": the ticket openTrade returns for a fetched buffer
IdentificationPass(reply) ==
    IF reply.ptr /\ reply.total > 0
    THEN NewestScan(reply.buf, reply.total, 1, 0, 0)
    ELSE 0

\* the book after the server accepts an open for lg at the current second
BookAfterOpen(lg, symbol) ==
    Append(sdkTrades, [order |-> sdkTickets + 1, login |-> lg,
                       symbol |-> symbol, open_time |-> sdkTime,
                       close_time |-> 0])

openTrade(lg, symbol, cmd, volume) ==
    /\ alive
    /\ pre' = Snapshot
    /\ IF ~isValid \/ ~m_logged_in
       THEN /\ m_last_error' = ERR_NOT_LOGGED_IN
            /\ op' = OpRec("openTrade", FALSE, 0, <<>>, <<>>, NoFetch, 0)
            /\ UNCHANGED <<sdkTrades, sdkTickets>>
       ELSE \E units \in LotsToUnits(volume) :
            \E res \in (IF sdkTickets < MaxTrades THEN SdkCodes
                        ELSE Refusals) :
              IF res # RET_OK
              THEN /\ m_last_error' = setLastError(res)
                   /\ op' = WithArg(
                              OpRec("openTrade", FALSE, 0, <<>>,
                                    <<"TradeTransaction", "ErrorDescription">>,
                                    NoFetch, 0),
                              <<OpenDescriptor(lg, symbol, cmd, units, res), volume>>)
                   /\ UNCHANGED <<sdkTrades, sdkTickets>>
              ELSE /\ sdkTrades' = BookAfterOpen(lg, symbol)
                   /\ sdkTickets' = sdkTickets + 1
                   /\ \E reply \in TradeReplies(
                                     TradesByLogin(BookAfterOpen(lg, symbol),
                                                   lg)) :
                        op' = WithArg(
                                OpRec("openTrade", FALSE,
                                      IdentificationPass(reply), <<>>,
                                      <<"TradeTransaction", "TradesGetByLogin">>
                                          \o FreeCalls(Fetched(reply)),
                                      Fetched(reply), sdkTickets + 1),
                                <<OpenDescriptor(lg, symbol, cmd, units, res), volume>>)
                   /\ UNCHANGED m_last_error
    /\ UNCHANGED <<alive, m_manager, m_connected, m_logged_in, m_server,
                   m_login, sdkConnected, sdkTime, releases>>

\* a closeTrade that drops the login when the SDK refuses the transaction
closeTradeDropsSession(ticket) ==
    /\ alive
    /\ pre' = Snapshot
    /\ IF ~isValid \/ ~m_logged_in
       THEN /\ m_last_error' = ERR_NOT_LOGGED_IN
            /\ op' = OpRec("closeTrade", FALSE, 0, <<>>, <<>>, NoFetch, 0)
            /\ UNCHANGED <<sdkTrades, m_logged_in>>
       ELSE \E res \in (IF Tradable(ticket) THEN SdkCodes ELSE Refusals) :
              IF res # RET_OK
              THEN /\ m_last_error' = setLastError(res)
                   /\ op' = OpRec("closeTrade", FALSE, 0, <<>>,
                                  <<"TradeTransaction", "ErrorDescription">>,
                                  NoFetch, 0)
                   /\ m_logged_in' = FALSE
                   /\ UNCHANGED sdkTrades
              \* a closed trade leaves the book of open trades
              ELSE /\ sdkTrades' = SelectSeq(sdkTrades,
                                             LAMBDA t : t.order # ticket)
                   /\ op' = OpRec("closeTrade", TRUE, 0, <<>>,
                                  <<"TradeTransaction">>, NoFetch, 0)
                   /\ UNCHANGED <<m_last_error, m_logged_in>>
    /\ UNCHANGED <<alive, m_manager, m_connected, m_server,
                   m_login, sdkConnected, sdkTime, sdkTickets, releases>>

closeTrade(ticket) ==
    /\ alive
    /\ pre' = Snapshot
    /\ IF ~isValid \/ ~m_logged_in
       THEN /\ m_last_error' = ERR_NOT_LOGGED_IN
            /\ op' = OpRec("closeTrade", FALSE, 0, <<>>, <<>>, NoFetch, 0)
            /\ UNCHANGED sdkTrades
       ELSE \E res \in (IF Tradable(ticket) THEN SdkCodes ELSE Refusals) :
              IF res # RET_OK
              THEN /\ m_last_error' = setLastError(res)
                   /\ op' = OpRec("closeTrade", FALSE, 0, <<>>,
                                  <<"TradeTransaction", "ErrorDescription">>,
                                  NoFetch, 0)
                   /\ UNCHANGED sdkTrades
              \* a closed trade leaves the book of open trades
              ELSE /\ sdkTrades' = SelectSeq(sdkTrades,
                                             LAMBDA t : t.order # ticket)
                   /\ op' = OpRec("closeTrade", TRUE, 0, <<>>,
                                  <<"TradeTransaction">>, NoFetch, 0)
                   /\ UNCHANGED m_last_error
    /\ UNCHANGED <<alive, m_manager, m_connected, m_logged_in, m_server,
                   m_login, sdkConnected, sdkTime, sdkTickets, releases>>

\* stop-loss and take-profit levels are not kept in the book
modifyTrade(ticket) ==
    /\ alive
    /\ pre' = Snapshot
    /\ IF ~isValid \/ ~m_logged_in
       THEN /\ m_last_error' = ERR_NOT_LOGGED_IN
            /\ op' = OpRec("modifyTrade", FALSE, 0, <<>>, <<>>, NoFetch, 0)
       ELSE \E res \in (IF Tradable(ticket) THEN SdkCodes ELSE Refusals) :
              IF res # RET_OK
              THEN /\ m_last_error' = setLastError(res)
                   /\ op' = OpRec("modifyTrade", FALSE, 0, <<>>,
                                  <<"TradeTransaction", "ErrorDescription">>,
                                  NoFetch, 0)
              ELSE /\ op' = OpRec("modifyTrade", TRUE, 0, <<>>,
                                  <<"TradeTransaction">>, NoFetch, 0)
                   /\ UNCHANGED m_last_error
    /\ UNCHANGED <<alive, m_manager, m_connected, m_logged_in, m_server,
                   m_login, sdkVars, releases>>

(* ------------------------------ destruction ---------------------------- *)
\* a destructor that gives up when Disconnect reports a failure
DestroySkipsRelease ==
    /\ alive
    /\ alive' = FALSE
    /\ pre' = Snapshot
    /\ IF m_manager # NULL
       THEN \E res \in (IF m_connected THEN SdkCodes ELSE {RET_OK}) :
              /\ sdkConnected' = IF m_connected THEN FALSE ELSE sdkConnected
              /\ IF res = RET_OK
                 THEN /\ m_manager' = NULL
                      /\ releases' = releases + 1
                      /\ op' = OpRec("destroy", TRUE, res, <<>>,
                                     (IF m_connected THEN <<"Disconnect">>
                                      ELSE <<>>)
                                         \o <<"Release", "WinsockCleanup">>,
                                     NoFetch, 0)
                 ELSE /\ op' = OpRec("destroy", TRUE, res, <<>>,
                                     <<"Disconnect", "WinsockCleanup">>,
                                     NoFetch, 0)
                      /\ UNCHANGED <<m_manager, releases>>
       ELSE /\ op' = OpRec("destroy", TRUE, 0, <<>>, <<"WinsockCleanup">>,
                           NoFetch, 0)
            /\ UNCHANGED <<m_manager, releases, sdkConnected>>
    /\ UNCHANGED <<m_connected, m_logged_in, m_server, m_login, m_last_error,
                   sdkTime, sdkTrades, sdkTickets>>

\* ~MT4Manager(). Disconnect's return code (kept in retI) is not looked at.
Destroy ==
    /\ alive
    /\ alive' = FALSE
    /\ pre' = Snapshot
    /\ IF m_manager # NULL
       THEN \E res \in (IF m_connected THEN SdkCodes ELSE {RET_OK}) :
              /\ m_manager' = NULL
              /\ releases' = releases + 1
              /\ sdkConnected' = IF m_connected THEN FALSE ELSE sdkConnected
              /\ op' = OpRec("destroy", TRUE, res, <<>>,
                             (IF m_connected THEN <<"Disconnect">> ELSE <<>>)
                                 \o <<"Release", "WinsockCleanup">>,
                             NoFetch, 0)
       ELSE /\ op' = OpRec("destroy", TRUE, 0, <<>>, <<"WinsockCleanup">>,
                           NoFetch, 0)
            /\ UNCHANGED <<m_manager, releases, sdkConnected>>
    /\ UNCHANGED <<m_connected, m_logged_in, m_server, m_login, m_last_error,
                   sdkTime, sdkTrades, sdkTickets>>

(* ------------------------------ environment ---------------------------- *)
\* the SDK loses its connection to the server
SdkConnectionLost ==
    /\ alive
    /\ sdkConnected
    /\ sdkConnected' = FALSE
    /\ UNCHANGED <<alive, adapterVars, sdkTime, sdkTrades, sdkTickets,
                   releases, op, pre>>

\* the server clock advances by one second
SdkTick ==
    /\ alive
    /\ sdkTime + 1 < MaxTime
    /\ sdkTime' = sdkTime + 1
    /\ UNCHANGED <<alive, adapterVars, sdkConnected, sdkTrades, sdkTickets,
                   releases, op, pre>>

Next ==
    \/ \E s \in Servers : connect(s)
    \/ \E l \in Logins : login(l)
    \/ disconnect
    \/ isConnected
    \/ isLoggedIn
    \/ getServerTime
    \/ getAccounts
    \/ \E l \in Logins : getAccount(l)
    \/ getSymbols
    \/ \E y \in Symbols : getSymbol(y)
    \/ getTrades
    \/ \E l \in Logins : getTradesByLogin(l)
    \/ \E y \in Symbols : getTradesBySymbol(y)
    \/ \E t \in Tickets : getTradeByTicket(t)
    \/ \E l \in Logins : getMarginLevel(l)
    \/ getOnlineUsersCount
    \/ \E l \in Logins : isUserOnline(l)
    \/ \E l \in Logins, y \in Symbols, a \in OpenArgs :
          openTrade(l, y, a[1], a[2])
    \/ \E t \in Tickets : closeTrade(t)
    \/ \E t \in Tickets : modifyTrade(t)
    \/ Destroy
    \/ SdkConnectionLost
    \/ SdkTick

Spec == Init /\ [][Next]_vars

(* ------------------------------ properties ----------------------------- *)
ListOps == {"getAccounts", "getSymbols", "getTrades", "getTradesByLogin",
            "getTradesBySymbol"}
QueryOps == ListOps \cup {"getAccount", "getSymbol", "getTradeByTicket",
                          "getOnlineUsersCount", "isUserOnline"}
TradeOps == {"openTrade", "closeTrade", "modifyTrade"}
\* operations that need the Authenticated state
AuthOps == QueryOps \cup TradeOps \cup {"getServerTime", "getMarginLevel"}

\* the operation returned false, 0, NULL or an empty sequence
ReturnedFailure == ~op.retB /\ op.retI = 0 /\ op.retS = <<>>

\* connected flag, logged-in flag, server label and stored login are as the
\* last operation found them
SessionUnchanged ==
    /\ m_connected = pre.connected
    /\ m_logged_in = pre.logged_in
    /\ m_server = pre.server
    /\ m_login = pre.login

AdapterUnchanged ==
    /\ SessionUnchanged
    /\ m_manager = pre.manager
    /\ m_last_error = pre.last_error

\* the last operation needed a later session state than it found
RequiredLaterState ==
    \/ op.name = "connect" /\ pre.manager = NULL
    \/ op.name = "login" /\ (pre.manager = NULL \/ ~pre.connected)
    \/ op.name \in AuthOps /\ (pre.manager = NULL \/ ~pre.logged_in)

\* C1: while the adapter lives, logged in implies connected, and connected
\* implies that the manager handle is not null.
C1_SessionOrder ==
    alive => /\ m_logged_in => m_connected
             /\ m_connected => m_manager # NULL

\* C1 witness: a connect was refused on an adapter that is logged in
C1_Witness ==
    alive /\ op.name = "connect" /\ ~op.retB /\ m_logged_in /\ m_connected

\* C2: an operation that needs a later session state returns its failure
\* value, calls nothing on the manager interface and leaves the connected
\* flag, the logged-in flag, the server label and the stored login alone.
C2_EarlyStateRejected ==
    RequiredLaterState =>
        ReturnedFailure /\ op.calls = <<>> /\ SessionUnchanged

\* C2 witness: a login was attempted on a valid adapter that is not connected
C2_Witness ==
    /\ op.name = "login"
    /\ pre.manager # NULL
    /\ ~pre.connected
    /\ ~op.retB
    /\ op.calls = <<>>
\* C3: every non-null buffer the SDK hands to an operation is passed to
\* MemFree exactly once before the operation returns, whatever the count.
C3_BufferFreedOnce == op.ptr => op.frees = 1

\* the last operation was a query issued after the SDK had lost a
\* connection the adapter still believed in
QueryAfterLoss ==
    op.name \in QueryOps /\ pre.connected /\ ~pre.sdkConnected

\* C4: a query issued after the SDK lost its connection moves the session to
\* Initialized: both flags false, stored login cleared, last error set.
C4_LossObservedAtQuery ==
    QueryAfterLoss =>
        /\ ~m_connected
        /\ ~m_logged_in
        /\ m_login = 0
        /\ m_last_error # ""

\* the last operation failed: it was refused for the session state, or the
\* SDK refused its request
OpFailed ==
    \/ RequiredLaterState
    \/ op.name \in {"connect", "login", "getMarginLevel", "closeTrade",
                    "modifyTrade", "getAccount", "getSymbol",
                    "getTradeByTicket"} /\ ~op.retB
    \/ op.name = "openTrade" /\ op.retI = 0
    \/ op.name \in ListOps /\ op.calls # <<>> /\ ~op.ptr

\* C5: after a failed operation getLastError() is not empty, and getAccounts()
\* on an adapter that never connected leaves a not-connected message.
C5_FailureLeavesMessage ==
    /\ OpFailed => getLastError # ""
    /\ (op.name = "getAccounts" /\ ~pre.connected) =>
           op.retS = <<>> /\ getLastError \in {ERR_NOT_CONNECTED,
                                               ERR_NOT_LOGGED_IN}

\* C6: in Authenticated state a list query whose SDK call fails returns an
\* empty sequence and leaves the SDK's description of the failure in the
\* last-error slot.
C6_ListFailureReported ==
    (op.name \in ListOps /\ pre.logged_in /\ op.calls # <<>> /\ ~op.ptr) =>
        /\ op.retS = <<>>
        /\ getLastError \in {ErrorDescription(c) : c \in ErrCodes}

\* C7: an openTrade that returns a non-zero ticket returns the ticket of the
\* trade that this call created.
C7_OpenReturnsOwnTicket ==
    (op.name = "openTrade" /\ op.retI # 0) => op.retI = op.created

\* largest open time among the first n records of a buffer
MaxOpenTime(buf, n) ==
    CHOOSE t \in {buf[i].open_time : i \in 1..n} :
        \A i \in 1..n : buf[i].open_time <= t

\* position of the last of the first n records that carries the open time t
LastAt(buf, n, t) ==
    CHOOSE i \in 1..n :
        /\ buf[i].open_time = t
        /\ \A j \in (i + 1)..n : buf[j].open_time # t

\* C8: the identification pass returns the ticket of the last record, in
\* iteration order, among those with the largest open time fetched.
C8_NewestLastWins ==
    (op.name = "openTrade" /\ op.ptr /\ op.total > 0) =>
        op.retI = op.buf[LastAt(op.buf, op.total,
                                MaxOpenTime(op.buf, op.total))].order

\* position of a call in the last operation's calls (0: not made)
CallAt(c) ==
    IF \E i \in 1..Len(op.calls) : op.calls[i] = c
    THEN CHOOSE i \in 1..Len(op.calls) : op.calls[i] = c
    ELSE 0

CallCount(c) == Cardinality({i \in 1..Len(op.calls) : op.calls[i] = c})

\* C9: with a valid handle, Release is called once, by the destructor only;
\* there Disconnect (made iff the connected flag is set) comes before it,
\* Release follows whatever Disconnect answered, WinsockCleanup comes after
\* it, and no manager call follows it.
C9_ReleaseOnceAtTeardown ==
    /\ alive => releases = 0 /\ CallCount("Release") = 0
    /\ (~alive /\ pre.manager # NULL) =>
           /\ op.name = "destroy"
           /\ releases = 1
           /\ CallCount("Release") = 1
           /\ (CallAt("Disconnect") # 0) = pre.connected
           /\ CallAt("Disconnect") < CallAt("Release")
           /\ CallAt("WinsockCleanup") = CallAt("Release") + 1
           /\ Len(op.calls) = CallAt("WinsockCleanup")
           /\ m_manager = NULL

\* C9 witness: a connected adapter was destroyed and Disconnect had failed
C9_Witness ==
    ~alive /\ pre.manager # NULL /\ pre.connected /\ op.retI # RET_OK
           /\ releases = 1

\* C10: isConnected() answers the connected flag and the SDK's IsConnected
\* together, isLoggedIn() answers the logged-in flag alone, and neither
\* changes the adapter.
C10_Introspection ==
    /\ op.name = "isConnected" =>
           /\ op.retB = (pre.connected /\ pre.sdkConnected)
           /\ AdapterUnchanged
    /\ op.name = "isLoggedIn" =>
           /\ op.retB = pre.logged_in
           /\ AdapterUnchanged

\* C10 witness: isConnected() answered false on a logged-in adapter whose
\* SDK had lost the connection
C10_Witness ==
    /\ op.name = "isConnected"
    /\ pre.connected
    /\ pre.logged_in
    /\ ~pre.sdkConnected
    /\ ~op.retB
    /\ m_connected
\* the last operation was an openTrade that submitted a descriptor
OpenSubmitted == op.name = "openTrade" /\ CallCount("TradeTransaction") > 0

\* the six trade-type order kinds, OP_BUY .. OP_SELL_STOP
TradeKinds == OP_BUY..(OP_BALANCE - 1)

\* C11: in Authenticated state openTrade with an order kind that is not one
\* of the six trade types returns zero, sets the last error and submits no
\* TradeTransaction; so every descriptor submitted carries a trade type.
C11_AdjustmentKindsRejected ==
    OpenSubmitted => op.arg[1].cmd \in TradeKinds

\* volume * 1000 of a volume whose volume * 100 fits an int
Milli(volume) == volume.lots * 1000 + volume.milli

Abs(n) == IF n >= 0 THEN n ELSE -n

C13_OverflowRejected == OpenSubmitted => FitsInt(op.arg[2])

\* C14: with a null handle every operation returns its failure value and
\* leaves the not-initialized message in the last-error slot.
C14_NullHandleNotInitialized ==
    (pre.manager = NULL /\ op.name \in AuthOps \cup {"connect", "login"}) =>
        /\ ~isValid
        /\ ReturnedFailure
        /\ getLastError = ERR_NOT_INITIALIZED

\* C15: disconnect() on a connected adapter clears both flags and the stored
\* login and calls Disconnect once; on an adapter that is not connected it
\* calls nothing and changes nothing.
C15_DisconnectResets ==
    op.name = "disconnect" =>
        IF pre.connected
        THEN /\ ~m_connected
             /\ ~m_logged_in
             /\ m_login = 0
             /\ op.calls = <<"Disconnect">>
        ELSE op.calls = <<>> /\ AdapterUnchanged

\* C16: connected flag, logged-in flag, server label and stored login change
\* only inside connect, login and disconnect; every other call leaves them
\* as it found them, whether it succeeds or fails.
C16_SessionFrame ==
    op.name \notin {"connect", "login", "disconnect"} => SessionUnchanged

\* C16 witness: a trade was closed with the link live and the session kept
C16_Witness ==
    /\ op.name = "closeTrade"
    /\ op.retB
    /\ pre.sdkConnected
    /\ m_logged_in
    /\ m_login \in Logins

\* C17: when the SDK rejects the descriptor of an openTrade, the call leaves
\* the SDK's description of the code in the last-error slot, returns zero
\* and makes no TradesGetByLogin and no MemFree call.
C17_RejectedOpen ==
    (OpenSubmitted /\ op.arg[1].res # RET_OK) =>
        /\ getLastError = ErrorDescription(op.arg[1].res)
        /\ op.retI = 0
        /\ CallCount("TradesGetByLogin") = 0
        /\ CallCount("MemFree") = 0
        /\ ~op.ptr

\* C17 witness: an open was rejected while an older message was in the slot
C17_Witness ==
    /\ OpenSubmitted
    /\ op.arg[1].res = RET_NO_CONNECT
    /\ pre.last_error = ErrorDescription(RET_ERROR)
    /\ op.retI = 0

\* C18: a list query that gets a non-null buffer of N > 0 records returns N
\* elements, the i-th equal to the i-th record; with a null pointer or
\* N <= 0 it returns the empty sequence.
C18_ListMirrorsBuffer ==
    (op.name \in ListOps /\ op.calls # <<>>) =>
        IF op.ptr /\ op.total > 0
        THEN /\ Len(op.retS) = op.total
             /\ \A i \in 1..op.total : op.retS[i] = op.buf[i]
        ELSE op.retS = <<>>

\* C18 witness: getTradesByLogin returned two trades
C18_Witness ==
    /\ op.name = "getTradesByLogin"
    /\ op.ptr
    /\ op.total = 2
    /\ Len(op.retS) = 2
    /\ op.retS[1].order # op.retS[2].order

\* C19: connect() never changes the logged-in flag or the stored login and
\* never clears the connected flag; when it succeeds it sets the connected
\* flag and the server label, when it fails it leaves flag and label alone.
C19_ConnectFrame ==
    op.name = "connect" =>
        /\ m_logged_in = pre.logged_in
        /\ m_login = pre.login
        /\ pre.connected => m_connected
        /\ IF op.retB
           THEN m_connected /\ <<m_server>> = op.arg
           ELSE m_connected = pre.connected /\ m_server = pre.server

\* C19 witness: a logged-in adapter connected again, to another server
C19_Witness ==
    /\ op.name = "connect"
    /\ op.retB
    /\ pre.logged_in
    /\ m_logged_in
    /\ pre.server # m_server
    /\ pre.server # ""

\* C20: an operation that does not fail leaves the last-error slot as it
\* found it.
C20_SuccessKeepsError ==
    ~OpFailed => getLastError = pre.last_error

\* C20 witness: a login succeeded after a failure had left a message
C20_Witness ==
    /\ op.name = "login"
    /\ op.retB
    /\ pre.last_error # ""
    /\ getLastError = pre.last_error

\* C21: openTrade returns a non-zero ticket only if the adapter was logged
\* in on entry, TradeTransaction returned RET_OK and TradesGetByLogin gave a
\* non-null buffer with at least one record, among the total it announced,
\* whose open time is strictly positive; in every other case (refused before
\* or by the SDK, a null or empty fetch, a fetch whose records all have open
\* time zero) it returns zero.
C21_TicketOnlyFromStampedRecord ==
    (op.name = "openTrade" /\ op.retI # 0) =>
        /\ pre.logged_in
        /\ OpenSubmitted
        /\ op.arg[1].res = RET_OK
        /\ CallCount("TradesGetByLogin") = 1
        /\ op.ptr
        /\ \E i \in 1..op.total : op.buf[i].open_time > 0

\* C21 witness: an accepted open returned a ticket from a buffer that also
\* held a record with open time zero, which the pass skipped
C21_Witness ==
    /\ OpenSubmitted
    /\ op.arg[1].res = RET_OK
    /\ op.ptr
    /\ op.total > 1
    /\ \E i \in 1..op.total : op.buf[i].open_time = 0
    /\ \E i \in 1..op.total :
          op.buf[i].open_time > 0 /\ op.buf[i].order = op.retI
    /\ op.retI # 0

\* an accepted open whose fetch held records, all with open time zero, and
\* that returned zero
C21_AllUnstampedReturnsZero ==
    /\ OpenSubmitted
    /\ op.arg[1].res = RET_OK
    /\ op.ptr
    /\ op.total > 0
    /\ \A i \in 1..op.total : op.buf[i].open_time = 0
    /\ op.retI = 0

====
